---- MODULE Spec2Model ----
(***************************************************************************)
(* Model of doppler-cloud-syncs: the `dcs sync` command with its Firebase  *)
(* and Cloudflare platform clients (packages/cli) and the runtime secret   *)
(* cache behind getSecrets (packages/runtime).                             *)
(***************************************************************************)
EXTENDS Integers, Sequences, FiniteSets, Bags, TLC

(***************************************************************************)
(* Bounds of the model.                                                    *)
(***************************************************************************)
NumNames == 2

(***************************************************************************)
(* Secret names.  A name is a word (n) in one of three spellings: all      *)
(* upper case ("API_KEY"), all lower case ("api_key") or anything else     *)
(* ("Api_Key").  String.toLowerCase / toUpperCase change the spelling and  *)
(* keep the word.                                                          *)
(***************************************************************************)
Names == 1..NumNames

Spellings == {"upper", "mixed", "lower"}

Key(n, c) == [n |-> n, c |-> c]

toLowerCase(k) == [n |-> k.n, c |-> "lower"]

toUpperCase(k) == [n |-> k.n, c |-> "upper"]

\* Names the canonical provider may hold (CanonKeys), names a Firebase
\* config may hold (its keys are lower case), names a Worker may hold.
\* The provider's names are upper case by convention, not by construction:
\* one word also comes in another spelling.
UpperKeys == {Key(n, "upper") : n \in Names}

CanonKeys == UpperKeys \cup {Key(1, "mixed")}

FirebaseKeys == {Key(n, "lower") : n \in Names}

WorkerKeys == UpperKeys \cup {Key(1, "lower")}

Values == {"v1", "v2"}

Undefined == "undefined"

EmptyMap == [k \in {} |-> "v1"]

SecretMaps(K) == UNION {[S -> Values] : S \in SUBSET K}

\* obj[k] of a JavaScript object: undefined for a missing property.
Lookup(m, k) == IF k \in DOMAIN m THEN m[k] ELSE Undefined

\* Object.keys: the property names in insertion order; the order of a parsed
\* JSON object is the order of the document, taken here as sorted by word and
\* spelling.
KeyRank(k) == 3 * k.n + (CASE k.c = "upper" -> 0 [] k.c = "mixed" -> 1 [] OTHER -> 2)

RECURSIVE SortKeys(_)
SortKeys(S) ==
  IF S = {} THEN <<>>
  ELSE LET k == CHOOSE x \in S : \A y \in S : KeyRank(x) <= KeyRank(y)
       IN  <<k>> \o SortKeys(S \ {k})

ObjectKeys(m) == SortKeys(DOMAIN m)

\* Array.prototype.includes / map / the set of elements of an array.
Includes(arr, x) == \E i \in DOMAIN arr : arr[i] = x

MapLower(arr) == [i \in DOMAIN arr |-> toLowerCase(arr[i])]

Elems(arr) == {arr[i] : i \in DOMAIN arr}

(***************************************************************************)
(* FirebaseClient (packages/cli/src/platforms/firebase.ts).  The platform  *)
(* state is the `doppler` namespace of the functions config, a map from    *)
(* lower-case names to values; an absent namespace is the empty map.       *)
(***************************************************************************)
\* getConfig: the parsed config, or {} when the firebase CLI fails.
FirebaseGetConfig(store, cliOk) == IF cliOk THEN store ELSE EmptyMap

\* A diff that compares the canonical names as they are, not lower-cased.
FirebaseDiffCanonicalNames(store, cliOk, dopplerSecrets) ==
  LET currentDoppler == FirebaseGetConfig(store, cliOk)
      dopplerKeys == ObjectKeys(dopplerSecrets)
      currentKeys == ObjectKeys(currentDoppler)
  IN  [toAdd    |-> SelectSeq(dopplerKeys, LAMBDA k : ~Includes(currentKeys, k)),
       toRemove |-> SelectSeq(currentKeys, LAMBDA k : ~Includes(dopplerKeys, k)),
       toUpdate |-> SelectSeq(dopplerKeys, LAMBDA k :
                      /\ Includes(currentKeys, k)
                      /\ currentDoppler[k] # Lookup(dopplerSecrets, toUpperCase(k)))]

FirebaseDiff(store, cliOk, dopplerSecrets) ==
  LET currentDoppler == FirebaseGetConfig(store, cliOk)
      dopplerKeys == MapLower(ObjectKeys(dopplerSecrets))
      currentKeys == ObjectKeys(currentDoppler)
  IN  [toAdd    |-> SelectSeq(dopplerKeys, LAMBDA k : ~Includes(currentKeys, k)),
       toRemove |-> SelectSeq(currentKeys, LAMBDA k : ~Includes(dopplerKeys, k)),
       toUpdate |-> SelectSeq(dopplerKeys, LAMBDA k :
                      /\ Includes(currentKeys, k)
                      /\ currentDoppler[k] # Lookup(dopplerSecrets, toUpperCase(k)))]

\* unsetConfig(['doppler']) when the CLI succeeds: the namespace is gone.
FirebaseUnsetConfig(store) == EmptyMap

\* setConfig when the CLI succeeds: every pair doppler.<lower(k)>=<v> is
\* written over the existing namespace.  Two canonical names with the same
\* lower-case form give two pairs for one platform name; which one the CLI
\* keeps is not fixed by this code, so both outcomes are possible.
FirebaseSetConfig(store, config) ==
  LET written == {toLowerCase(k) : k \in DOMAIN config}
      choices(l) == {config[k] : k \in {x \in DOMAIN config : toLowerCase(x) = l}}
  IN  {[l \in DOMAIN store \cup written |->
          IF l \in written THEN w[l] ELSE store[l]] :
       w \in {f \in [written -> Values] : \A l \in written : f[l] \in choices(l)}}

(***************************************************************************)
(* CloudflareClient (packages/cli/src/platforms/cloudflare.ts).  The       *)
(* platform state is the Worker's secret store; only names can be listed.  *)
(***************************************************************************)
\* listSecrets: the names, or [] when wrangler fails.
CloudflareListSecrets(store, cliOk) == IF cliOk THEN ObjectKeys(store) ELSE <<>>

\* Variant: names present on both sides are left out, as unchanged ones.
CloudflareDiffExistingOmitted(store, cliOk, dopplerSecrets) ==
  LET currentSecrets == CloudflareListSecrets(store, cliOk)
      dopplerKeys == ObjectKeys(dopplerSecrets)
  IN  [toAdd    |-> SelectSeq(dopplerKeys, LAMBDA k : ~Includes(currentSecrets, k)),
       toRemove |-> SelectSeq(currentSecrets, LAMBDA k : ~Includes(dopplerKeys, k)),
       existing |-> <<>>]

CloudflareDiff(store, cliOk, dopplerSecrets) ==
  LET currentSecrets == CloudflareListSecrets(store, cliOk)
      dopplerKeys == ObjectKeys(dopplerSecrets)
  IN  [toAdd    |-> SelectSeq(dopplerKeys, LAMBDA k : ~Includes(currentSecrets, k)),
       toRemove |-> SelectSeq(currentSecrets, LAMBDA k : ~Includes(dopplerKeys, k)),
       existing |-> SelectSeq(dopplerKeys, LAMBDA k : Includes(currentSecrets, k))]

\* `wrangler secret bulk <file>` when it succeeds: every secret of the file
\* is created or overwritten; secrets not in the file are left as they are.
CloudflareBulk(store, dopplerSecrets) ==
  [k \in DOMAIN store \cup DOMAIN dopplerSecrets |->
     IF k \in DOMAIN dopplerSecrets THEN dopplerSecrets[k] ELSE store[k]]

(***************************************************************************)
(* Errors.  A message is its fixed text plus the command-line arguments    *)
(* that child_process puts into "Command failed: <command line>".          *)
(***************************************************************************)
Msg(text, args) == [text |-> text, args |-> args]

NoMsg == Msg("", {})

\* The doppler.<name>=<value> arguments setConfig passes to the firebase CLI.
FirebasePairs(config) == {[k |-> toLowerCase(k), v |-> config[k]] : k \in DOMAIN config}

\* FirebaseClient.syncFromDoppler: unsetConfig(['doppler']) with its error
\* swallowed, then setConfig.  The outcomes the firebase CLI can produce;
\* failed names the CLI commands that failed.
FirebaseSyncFromDoppler(store, dopplerSecrets) ==
  LET cleared == {[store |-> FirebaseUnsetConfig(store), failed |-> {}],
                  [store |-> store, failed |-> {"functions:config:unset"}]}
  IN  UNION {{[store |-> st, ok |-> TRUE, error |-> NoMsg, failed |-> a.failed] :
                st \in FirebaseSetConfig(a.store, dopplerSecrets)} : a \in cleared}
      \cup
      {[store |-> a.store, ok |-> FALSE,
        error |-> Msg("Command failed: firebase functions:config:set",
                      FirebasePairs(dopplerSecrets)),
        failed |-> a.failed \cup {"functions:config:set"}] : a \in cleared}

\* unlinkSync(tempFile) with its error swallowed, whether the file exists
\* afterwards: an existing file is removed, a missing one (ENOENT) stays
\* missing.
UnlinkSync(exists) == FALSE

\* Variant: the payload file is unlinked after a successful bulk only.
CloudflareCleanupOnSuccess(exists, ok) == IF ok THEN UnlinkSync(exists) ELSE exists

\* The finally block of syncFromDoppler, whether the payload file exists
\* after it: unlinkSync runs whether the try block returned or raised.
CloudflareCleanup(exists, ok) == UnlinkSync(exists)

\* CloudflareClient.syncFromDoppler: write the payload file, run wrangler
\* secret bulk, unlink the file in the finally block.  tempLeft: the payload
\* file exists after the call.  writeFileSync fails before it creates the
\* file (EACCES) or after (ENOSPC, a partial file is there).
CloudflareSyncFromDoppler(store, dopplerSecrets) ==
  {[store |-> CloudflareBulk(store, dopplerSecrets), ok |-> TRUE,
    error |-> NoMsg, tempLeft |-> CloudflareCleanup(TRUE, TRUE), failed |-> {}],
   [store |-> store, ok |-> FALSE,
    error |-> Msg("Command failed: wrangler secret bulk", {}),
    tempLeft |-> CloudflareCleanup(TRUE, FALSE), failed |-> {"secret bulk"}],
   [store |-> store, ok |-> FALSE,
    error |-> Msg("ENOSPC: no space left on device, write", {}),
    tempLeft |-> CloudflareCleanup(TRUE, FALSE), failed |-> {}],
   [store |-> store, ok |-> FALSE,
    error |-> Msg("EACCES: permission denied, open", {}),
    tempLeft |-> CloudflareCleanup(FALSE, FALSE), failed |-> {}]}

VARIABLES
  secrets,          \* the canonical secret map held by the provider
  fbStore,          \* Firebase: the doppler namespace of the functions config
  cfStore,          \* Cloudflare: the Worker's secrets
  tempFile,         \* Cloudflare: the staged payload file exists
  prevOp, lastOp,   \* the last two client calls made directly (client runs)
  configured,       \* platforms with a section in dcs.yaml
  optPlatform,      \* sync [platform], "" when absent
  optDryRun,        \* --dry-run
  optConfig,        \* --config <env>
  pc,               \* position of the sync command
  runSecrets,       \* secrets, as fetched by the run
  platformsToSync,
  pending,          \* the SyncResult syncPlatform is filling in
  results,
  calls,            \* client calls made by the run, in order
  raised,           \* the error raised while obtaining the canonical map
  thrown,           \* the error that left the command action
  exitCode,         \* process exit status, -1 while running
  cache,            \* runtime: SecretsCache.cache, key -> CacheEntry
  now,              \* runtime: Date.now(), in milliseconds
  env,              \* runtime: process.env
  inflight,         \* runtime: bag of the configs of getSecrets calls awaiting fetchFromDoppler
  last,             \* runtime: the last getSecrets call that settled
  appFallback,      \* runtime: the fallback setting the application passes
  refreshes,        \* runtime: bag of the background refreshes that have not finished
  stored,           \* runtime: per cache key, when and with which TTL it was set
  crSecrets,        \* cloudrun adapter: the module's secrets, null until loaded
  initialized,      \* cloudrun adapter: the module's initialized flag
  initPromise,      \* cloudrun adapter: "null", or the state of the promise held
  refreshTimer,     \* cloudrun adapter: null, or the options of the interval the module holds
  timers,           \* cloudrun adapter: bag of the options of the live intervals
  crPending,        \* cloudrun adapter: bag of the async bodies that have not settled
  crHist,           \* cloudrun adapter: what happened since the last reset()
  prefetchedSecrets, \* functions adapter: the module's prefetched secrets, or null
  prefetchPromise,  \* functions adapter: "null", or the state of the promise held
  handlers,         \* functions adapter: the options of the wrapped handlers
  fnPending,        \* functions adapter: bag of the getSecrets calls that have not settled
  fnHist,           \* functions adapter: registrations, prefetches, fetches, invocations
  hookFile,         \* hooks: per hook name, the content of .git/hooks/<name>
  backupFile,       \* hooks: per hook name, the content of .git/hooks/<name>.backup
  hookHist          \* hooks: the files as first found, and the last result

clientVars == <<secrets, fbStore, cfStore, tempFile, prevOp, lastOp>>

syncVars == <<configured, optPlatform, optDryRun, optConfig, pc, runSecrets,
              platformsToSync, pending, results, calls, raised, thrown, exitCode>>

cacheVars == <<cache, now, env, inflight, last, appFallback, refreshes, stored>>

cloudrunVars == <<crSecrets, initialized, initPromise, refreshTimer, timers,
                  crPending, crHist>>

functionsVars == <<prefetchedSecrets, prefetchPromise, handlers, fnPending, fnHist>>

hooksVars == <<hookFile, backupFile, hookHist>>

adapterVars == <<cloudrunVars, functionsVars, hooksVars>>

vars == <<clientVars, syncVars, cacheVars, adapterVars>>

(***************************************************************************)
(* The runtime package (packages/runtime/src): SecretsCache, the fetchers  *)
(* and getSecrets.  Secret names are plain strings here.                   *)
(***************************************************************************)
MaxTicks == 3
TickMs == 500
NumCallers == 2

MsPerSecond == 1000


\* A possibly absent value: <<>> for null, <<v>> for v.
Null == <<>>

Some(v) == <<v>>

\* What the provider holds for each (project, config).
ProviderSecrets(project, config) ==
  IF config = "dev"
  THEN [k \in {"K1", "K2"} |-> IF k = "K1" THEN "dev1" ELSE "dev2"]
  ELSE [k \in {"K1"} |-> "prd1"]

\* Environment variable names matching /^[A-Z][A-Z0-9_]*$/.
UpperSnake == {"K1", "K2", "K3"}

\* process.env: K1 and K2 are set, K3 is not, home is not an upper-case name.
ProcessEnv ==
  [k \in {"K1", "K2", "home"} |-> IF k = "K1" THEN "e1" ELSE IF k = "K2" THEN "e2" ELSE "e0"]

\* SecretsConfig with its defaults resolved (source, fallback, cache.ttl,
\* project, config); keys is the set of requested names, {} when absent.
SecretsConfigs ==
  [source : {"doppler"}, project : {"p1"}, config : {"dev", "prd"},
   ttl : {0, 1}, fallback : {"env", "none"}, keys : {{}, {"K1", "K3"}}]
  \cup
  [source : {"env"}, project : {"p1"}, config : {"dev"},
   ttl : {1}, fallback : {"env", "none"}, keys : {{}, {"K1", "K3"}}]

FetchErrors == {"Network error", "Doppler API error (401)"}

\* filterKeys of core.ts.
filterKeys(value, keys) == [k \in {x \in keys : x \in DOMAIN value} |-> value[k]]

\* The value getSecrets returns for a map it holds: filtered when keys are given.
Requested(value, config) ==
  IF config.keys # {} THEN filterKeys(value, config.keys) ELSE value

\* fetchFromDoppler when the request succeeds: the keys parameter of the URL
\* restricts the download to the requested names.
fetchFromDoppler(config) ==
  LET all == ProviderSecrets(config.project, config.config)
  IN  IF config.keys # {} THEN filterKeys(all, config.keys) ELSE all

\* Variant: the requested keys are ignored.
fetchFromEnvAllNames(config, environ) ==
  [k \in {x \in DOMAIN environ : x \in UpperSnake} |-> environ[k]]

fetchFromEnv(config, environ) ==
  IF config.keys # {}
  THEN [k \in {x \in config.keys : x \in DOMAIN environ} |-> environ[k]]
  ELSE [k \in {x \in DOMAIN environ : x \in UpperSnake} |-> environ[k]]

\* SecretsCache (packages/runtime/src/cache.ts).
getKey(project, config) == project \o ":" \o config

SecretsCacheGet(entries, nowMs, project, config) ==
  LET key == getKey(project, config)
  IN  IF key \notin DOMAIN entries THEN Null
      ELSE IF nowMs > entries[key].expiresAt THEN Null
      ELSE Some(entries[key].secrets)

\* Variant: the ttl is added to the clock as if it were milliseconds.
SecretsCacheSetTtlAsMs(entries, nowMs, project, config, value, ttlSeconds) ==
  LET key == getKey(project, config)
  IN  [k \in DOMAIN entries \cup {key} |->
         IF k = key
         THEN [secrets |-> value,
               expiresAt |-> nowMs + ttlSeconds,
               refreshing |-> FALSE]
         ELSE entries[k]]

SecretsCacheSet(entries, nowMs, project, config, value, ttlSeconds) ==
  LET key == getKey(project, config)
  IN  [k \in DOMAIN entries \cup {key} |->
         IF k = key
         THEN [secrets |-> value,
               expiresAt |-> nowMs + ttlSeconds * MsPerSecond,
               refreshing |-> FALSE]
         ELSE entries[k]]

SecretsCacheGetStale(entries, project, config) ==
  LET key == getKey(project, config)
  IN  IF key \in DOMAIN entries THEN Some(entries[key].secrets) ELSE Null

SecretsCacheClear(entries) == [k \in {} |-> entries[k]]

\* setRefreshing: the flag of the entry, when there is an entry.
SecretsCacheSetRefreshing(entries, project, config, refreshing) ==
  LET key == getKey(project, config)
  IN  IF key \in DOMAIN entries
      THEN [entries EXCEPT ![key].refreshing = refreshing]
      ELSE entries

\* isRefreshing: entry?.refreshing ?? false.
SecretsCacheIsRefreshing(entries, project, config) ==
  LET key == getKey(project, config)
  IN  IF key \in DOMAIN entries THEN entries[key].refreshing ELSE FALSE


NoCall == [via |-> "", result |-> [k \in {} |-> ""], fetchError |-> "", error |-> ""]

InitCacheIdle ==
  /\ cache = [k \in {} |-> 0]
  /\ now = 0
  /\ env = ProcessEnv
  /\ inflight = EmptyBag
  /\ last = NoCall
  /\ appFallback = "env"
  /\ refreshes = EmptyBag
  /\ stored = [k \in {} |-> 0]

\* What the cloudrun adapter's history records since the last reset():
\* initSecrets calls, the getSecrets calls of their bodies, how many of
\* these the runtime cache answered and how many started a provider fetch,
\* the bodies that completed, and the outcome of the last getSecret call;
\* ops counts, over the whole run, the calls the bounds limit.
NoHist(ops) ==
  [calls |-> 0, bodies |-> 0, hits |-> 0, fetches |-> 0, completed |-> 0,
   lastGet |-> "none", ops |-> ops]

NoOps == [init |-> 0, reset |-> 0, refresh |-> 0, fire |-> 0]

\* adapters/cloudrun.ts as loaded: secrets = null, initialized = false,
\* initPromise = null, refreshTimer = null.
InitCloudRunIdle ==
  /\ crSecrets = <<>>
  /\ initialized = FALSE
  /\ initPromise = "null"
  /\ refreshTimer = <<>>
  /\ timers = EmptyBag
  /\ crPending = EmptyBag
  /\ crHist = NoHist(NoOps)

NoInvocations == [registrations |-> 0, prefetches |-> 0, fetches |-> 0,
                  invocations |-> 0, lastVia |-> "none"]

\* The functions adapter (adapters/firebase.ts) as loaded: prefetchedSecrets
\* and prefetchPromise are null, nothing is wrapped.
InitFunctionsIdle ==
  /\ prefetchedSecrets = <<>>
  /\ prefetchPromise = "null"
  /\ handlers = {}
  /\ fnPending = EmptyBag
  /\ fnHist = NoInvocations

HookNames == {"post-checkout", "post-merge"}

\* A repository without hook files, before any hooks command.
InitHooksIdle ==
  /\ hookFile = [h \in HookNames |-> "absent"]
  /\ backupFile = [h \in HookNames |-> "absent"]
  /\ hookHist = [found |-> [h \in HookNames |-> "absent"],
                 last |-> [op |-> "none", force |-> FALSE, hook |-> "all", ok |-> TRUE]]

InitAdaptersIdle ==
  /\ InitCloudRunIdle
  /\ InitFunctionsIdle
  /\ InitHooksIdle

(***************************************************************************)
(* SyncResult (packages/cli/src/platforms/index.ts) and the errors of      *)
(* packages/cli/src/errors.ts.                                             *)
(***************************************************************************)
NewSyncResult(platform) ==
  [platform |-> platform, success |-> FALSE,
   added |-> 0, updated |-> 0, removed |-> 0, error |-> NoMsg]

ExitSuccess == 0
ExitGeneralError == 1
ExitPlatformError == 4
NotExited == -1

NoError == [name |-> "", message |-> NoMsg, details |-> <<>>]

PlainError(text) == [name |-> "Error", message |-> Msg(text, {}), details |-> <<>>]

\* PlatformError.operationFailed('sync', 'sync secrets', errors), errors being
\* the "<platform>: <error>" of every failed result.
OperationFailed(failed) ==
  [name |-> "PlatformError",
   message |-> Msg("[sync] Failed to sync secrets", {}),
   details |-> [i \in DOMAIN failed |->
                  [platform |-> failed[i].platform, error |-> failed[i].error]]]

isDcsError(error) == error.name \in {"ConfigError", "AuthError", "NetworkError", "PlatformError"}

\* An entry point that exits with 1 whatever the error.
handleErrorGeneralOnly(error) == ExitGeneralError

\* handleError: the exit status for an error that reached the top level.
handleError(error) ==
  IF isDcsError(error)
  THEN (CASE error.name = "PlatformError" -> ExitPlatformError
          [] error.name = "AuthError" -> 3
          [] error.name = "ConfigError" -> 2
          [] OTHER -> ExitGeneralError)
  ELSE ExitGeneralError

(***************************************************************************)
(* Client runs: diff and syncFromDoppler called directly on the two        *)
(* clients, in any order, against a fixed canonical map.                   *)
(***************************************************************************)
NoOp == [platform |-> "", op |-> "", ok |-> TRUE, listOk |-> TRUE,
         listed |-> {}, diff |-> [toAdd |-> <<>>, toRemove |-> <<>>], failed |-> {}]

\* What is remembered of the call before the last one.
Summary(op) == [platform |-> op.platform, op |-> op.op, ok |-> op.ok]

InitClientState ==
  /\ tempFile = FALSE
  /\ prevOp = Summary(NoOp)
  /\ lastOp = NoOp

InitSyncIdle ==
  /\ configured = {}
  /\ optPlatform = ""
  /\ optDryRun = FALSE
  /\ optConfig = "dev"
  /\ pc = "idle"
  /\ runSecrets = EmptyMap
  /\ platformsToSync = <<>>
  /\ pending = NewSyncResult("")
  /\ results = <<>>
  /\ calls = <<>>
  /\ raised = NoError
  /\ thrown = NoError
  /\ exitCode = NotExited

\* Worker secret values cannot be read back, one initial value is enough.
WorkerStores == UNION {[S -> {"v1"}] : S \in SUBSET WorkerKeys}

\* One platform holds secrets, the other is empty: the clients share no state.
InitClient ==
  /\ secrets \in SecretMaps(CanonKeys)
  /\ \/ fbStore \in SecretMaps(FirebaseKeys) /\ cfStore = EmptyMap
     \/ fbStore = EmptyMap /\ cfStore \in WorkerStores
  /\ InitClientState
  /\ InitAdaptersIdle
  /\ InitSyncIdle
  /\ InitCacheIdle

ClientFirebaseDiff ==
  /\ \E cliOk \in BOOLEAN :
       lastOp' = [platform |-> "firebase", op |-> "diff", ok |-> TRUE, listOk |-> cliOk,
                  listed |-> DOMAIN FirebaseGetConfig(fbStore, cliOk),
                  diff |-> FirebaseDiff(fbStore, cliOk, secrets), failed |-> {}]
  /\ prevOp' = Summary(lastOp)
  /\ UNCHANGED <<secrets, fbStore, cfStore, tempFile, syncVars, cacheVars, adapterVars>>

ClientFirebaseSync ==
  /\ \E out \in FirebaseSyncFromDoppler(fbStore, secrets) :
       /\ fbStore' = out.store
       /\ lastOp' = [NoOp EXCEPT !.platform = "firebase", !.op = "sync", !.ok = out.ok,
                                 !.failed = out.failed]
  /\ prevOp' = Summary(lastOp)
  /\ UNCHANGED <<secrets, cfStore, tempFile, syncVars, cacheVars, adapterVars>>

ClientCloudflareDiff ==
  /\ \E cliOk \in BOOLEAN :
       lastOp' = [platform |-> "cloudflare", op |-> "diff", ok |-> TRUE, listOk |-> cliOk,
                  listed |-> Elems(CloudflareListSecrets(cfStore, cliOk)),
                  diff |-> CloudflareDiff(cfStore, cliOk, secrets), failed |-> {}]
  /\ prevOp' = Summary(lastOp)
  /\ UNCHANGED <<secrets, fbStore, cfStore, tempFile, syncVars, cacheVars, adapterVars>>

ClientCloudflareSync ==
  /\ \E out \in CloudflareSyncFromDoppler(cfStore, secrets) :
       /\ cfStore' = out.store
       /\ tempFile' = out.tempLeft
       /\ lastOp' = [NoOp EXCEPT !.platform = "cloudflare", !.op = "sync", !.ok = out.ok,
                                 !.failed = out.failed]
  /\ prevOp' = Summary(lastOp)
  /\ UNCHANGED <<secrets, fbStore, syncVars, cacheVars, adapterVars>>

NextClient ==
  \/ ClientFirebaseDiff
  \/ ClientFirebaseSync
  \/ ClientCloudflareDiff
  \/ ClientCloudflareSync

SpecClient == InitClient /\ [][NextClient]_vars

(***************************************************************************)
(* Properties of the platform clients (SpecClient).                        *)
(***************************************************************************)
\* The canonical names in the platform's naming.
PlatformNames(platform, C) ==
  IF platform = "firebase" THEN {toLowerCase(k) : k \in DOMAIN C} ELSE DOMAIN C

\* The third set of a diff: toUpdate (Firebase) or existing (Cloudflare).
Third(op) == IF op.platform = "firebase" THEN op.diff.toUpdate ELSE op.diff.existing

DiffDisjoint(op) ==
  /\ Elems(op.diff.toAdd) \cap Elems(op.diff.toRemove) = {}
  /\ Elems(op.diff.toAdd) \cap Elems(Third(op)) = {}
  /\ Elems(op.diff.toRemove) \cap Elems(Third(op)) = {}

DiffUnion(op) == Elems(op.diff.toAdd) \cup Elems(Third(op)) \cup Elems(op.diff.toRemove)

\* Firebase names present on both sides whose platform value is the value the
\* canonical map holds under the upper-cased name.
FirebaseUnchanged(op) ==
  {l \in PlatformNames("firebase", secrets) \cap op.listed :
     fbStore[l] = Lookup(secrets, toUpperCase(l))}

\* C3 as claimed: after any diff, the three returned sets are pairwise
\* disjoint and their union is exactly keys(C) union P in platform naming.
C3_DiffPartition ==
  lastOp.op = "diff" =>
    /\ DiffDisjoint(lastOp)
    /\ DiffUnion(lastOp) = PlatformNames(lastOp.platform, secrets) \cup lastOp.listed

\* C3 amended: the three sets are pairwise disjoint; Cloudflare's union is
\* exactly keys(C) union P; Firebase's union is keys(C) union P in lower
\* case without the names present on both sides with an unchanged value.
C3_DiffPartitionAmended ==
  lastOp.op = "diff" =>
    /\ DiffDisjoint(lastOp)
    /\ lastOp.platform = "cloudflare" =>
         DiffUnion(lastOp) = DOMAIN secrets \cup lastOp.listed
    /\ lastOp.platform = "firebase" =>
         DiffUnion(lastOp) =
           (PlatformNames("firebase", secrets) \cup lastOp.listed) \ FirebaseUnchanged(lastOp)

\* A Firebase diff with a name to add and an unchanged name left out.
C3_Witness ==
  /\ lastOp.op = "diff" /\ lastOp.platform = "firebase" /\ lastOp.listOk
  /\ lastOp.diff.toAdd # <<>>
  /\ FirebaseUnchanged(lastOp) # {}

\* C4 as claimed: a diff(C) that immediately follows a successful
\* syncFromDoppler(C) on the same platform returns empty toAdd and toRemove,
\* and Firebase then stores exactly C (in lower case).
C4_ApplyConvergence ==
  (/\ lastOp.op = "diff"
   /\ prevOp.op = "sync" /\ prevOp.ok
   /\ prevOp.platform = lastOp.platform) =>
    /\ lastOp.diff.toAdd = <<>>
    /\ lastOp.diff.toRemove = <<>>
    /\ lastOp.platform = "firebase" => DOMAIN fbStore = PlatformNames("firebase", secrets)

(***************************************************************************)
(* The sync command (packages/cli/src/commands/sync.ts).                   *)
(***************************************************************************)
Platforms == {"firebase", "cloudflare", "neon", "gcp"}

\* The environments dcs.yaml maps to a Doppler config.
DopplerConfigs == {"dev", "prd"}

\* Variant: the Cloudflare client is created first.
createPlatformClientsCloudflareFirst(config) ==
  (IF "cloudflare" \in config THEN <<"cloudflare">> ELSE <<>>)
  \o (IF "firebase" \in config THEN <<"firebase">> ELSE <<>>)

\* createPlatformClients: the clients, in the order they are created.
createPlatformClients(config) ==
  (IF "firebase" \in config THEN <<"firebase">> ELSE <<>>)
  \o (IF "cloudflare" \in config THEN <<"cloudflare">> ELSE <<>>)

Call(platform, op, ok) == [platform |-> platform, op |-> op, ok |-> ok]

\* A catch that reports every failure of the command as a platform failure.
CommandCatchWrapping(err) ==
  [name |-> "PlatformError", message |-> err.message, details |-> <<>>]

\* The catch of the command action: the error is thrown again as it is.
CommandCatch(err) == err

\* Stores a run starts from: values cannot decide anything the run does
\* beyond equal / not equal to the canonical value.
InitSync ==
  /\ secrets \in SecretMaps(UpperKeys)
  /\ fbStore \in UNION {[S -> {"v1"}] : S \in SUBSET FirebaseKeys}
  /\ cfStore \in UNION {[S -> {"v1"}] : S \in SUBSET UpperKeys}
  /\ configured \in SUBSET {"firebase", "cloudflare"}
  /\ optPlatform \in {"", "firebase", "cloudflare", "neon"}
  /\ optDryRun \in BOOLEAN
  /\ optConfig \in {"dev", "nope"}
  /\ pc = "start"
  /\ runSecrets = EmptyMap
  /\ platformsToSync = <<>>
  /\ pending = NewSyncResult("")
  /\ results = <<>>
  /\ calls = <<>>
  /\ raised = NoError
  /\ thrown = NoError
  /\ exitCode = NotExited
  /\ InitClientState
  /\ InitAdaptersIdle
  /\ InitCacheIdle

\* The action up to the platform loop: loadConfig, createDopplerClient,
\* createPlatformClients, doppler.getSecrets, platformsToSync.
SyncStart ==
  /\ pc = "start"
  /\ \/ /\ \E err \in {PlainError("dcs.yaml not found")} \cup
                     (IF optConfig \in DopplerConfigs
                      THEN {PlainError("Command failed: doppler secrets download")}
                      ELSE {PlainError("Unknown environment")}) :
             /\ raised' = err
             /\ thrown' = CommandCatch(err)
        /\ pc' = "thrown"
        /\ UNCHANGED <<runSecrets, platformsToSync>>
     \/ /\ optConfig \in DopplerConfigs
        /\ runSecrets' = secrets
        /\ platformsToSync' = IF optPlatform # "" THEN <<optPlatform>>
                              ELSE createPlatformClients(configured)
        /\ pc' = "loop"
        /\ UNCHANGED <<raised, thrown>>
  /\ UNCHANGED <<clientVars, configured, optPlatform, optDryRun, optConfig,
                 pending, results, calls, exitCode,
                 cacheVars, adapterVars>>

\* The platform the loop is at.
Current == platformsToSync[Len(results) + 1]

InLoop == pc = "loop" /\ Len(results) < Len(platformsToSync)

\* Variant: a platform without a client is reported as synced.
SyncPlatformSkipSilently ==
  /\ InLoop
  /\ Current \notin configured
  /\ results' = Append(results, [NewSyncResult(Current) EXCEPT !.success = TRUE])
  /\ UNCHANGED <<clientVars, configured, optPlatform, optDryRun, optConfig, pc,
                 runSecrets, platformsToSync, pending, calls, raised, thrown, exitCode,
                 cacheVars, adapterVars>>

\* syncPlatform for a platform without a client or without a case.
SyncPlatformSkip ==
  /\ InLoop
  /\ Current \notin configured
  /\ results' = Append(results,
       [NewSyncResult(Current) EXCEPT !.error =
          Msg(CASE Current = "firebase" -> "Firebase not configured"
                [] Current = "cloudflare" -> "Cloudflare not configured"
                [] OTHER -> "Platform not yet supported", {})])
  /\ UNCHANGED <<clientVars, configured, optPlatform, optDryRun, optConfig, pc,
                 runSecrets, platformsToSync, pending, calls, raised, thrown, exitCode,
                 cacheVars, adapterVars>>

\* syncPlatform up to the dry-run test: client.diff and the counts.
SyncPlatformDiffStep(dryRun) ==
  /\ InLoop
  /\ Current \in configured
  /\ \E cliOk \in BOOLEAN :
       LET diff == IF Current = "firebase"
                   THEN FirebaseDiff(fbStore, cliOk, runSecrets)
                   ELSE CloudflareDiff(cfStore, cliOk, runSecrets)
           result == [NewSyncResult(Current) EXCEPT
                        !.added = Len(diff.toAdd),
                        !.updated = IF Current = "firebase" THEN Len(diff.toUpdate)
                                    ELSE Len(diff.existing),
                        !.removed = Len(diff.toRemove)]
       IN  IF dryRun
           THEN /\ results' = Append(results, [result EXCEPT !.success = TRUE])
                /\ UNCHANGED <<pc, pending>>
           ELSE /\ pending' = result
                /\ pc' = "apply"
                /\ UNCHANGED results
  /\ calls' = Append(calls, Call(Current, "diff", TRUE))
  /\ UNCHANGED <<clientVars, configured, optPlatform, optDryRun, optConfig,
                 runSecrets, platformsToSync, raised, thrown, exitCode,
                 cacheVars, adapterVars>>

\* The same with the dry-run flag ignored.
SyncPlatformDiffIgnoringDryRun == SyncPlatformDiffStep(FALSE)

SyncPlatformDiff == SyncPlatformDiffStep(optDryRun)

\* syncPlatform from the dry-run test on: client.syncFromDoppler, the catch.
\* With again, a failed syncFromDoppler would be attempted a second time.
SyncPlatformApplyStep(again) ==
  /\ pc = "apply"
  /\ LET Retried(out) == /\ again /\ ~out.ok
                         /\ Call(Current, "apply", FALSE) \notin Elems(calls)
         Done(out) ==
           /\ results' = IF Retried(out) THEN results
                         ELSE Append(results,
                                [pending EXCEPT !.success = out.ok, !.error = out.error])
           /\ calls' = Append(calls, Call(Current, "apply", out.ok))
           /\ pc' = IF Retried(out) THEN "apply" ELSE "loop"
     IN  \/ /\ Current = "firebase"
            /\ \E out \in FirebaseSyncFromDoppler(fbStore, runSecrets) :
                 /\ fbStore' = out.store
                 /\ Done(out)
            /\ UNCHANGED <<cfStore, tempFile>>
         \/ /\ Current = "cloudflare"
            /\ \E out \in CloudflareSyncFromDoppler(cfStore, runSecrets) :
                 /\ cfStore' = out.store
                 /\ tempFile' = out.tempLeft
                 /\ Done(out)
            /\ UNCHANGED fbStore
  /\ UNCHANGED <<secrets, prevOp, lastOp, configured, optPlatform, optDryRun,
                 optConfig, runSecrets, platformsToSync, pending, raised, thrown, exitCode,
                 cacheVars, adapterVars>>

\* Variant: a failed syncFromDoppler is retried once.
SyncPlatformApplyRetrying == SyncPlatformApplyStep(TRUE)

SyncPlatformApply == SyncPlatformApplyStep(FALSE)

\* After the loop: the summary, then the failure check.
SyncSummaryWhen(loopDone) ==
  /\ pc = "loop"
  /\ loopDone
  /\ LET failed == SelectSeq(results, LAMBDA r : ~r.success)
     IN  IF Len(failed) > 0
         THEN /\ thrown' = OperationFailed(failed)
              /\ pc' = "thrown"
              /\ UNCHANGED exitCode
         ELSE /\ pc' = "exited"
              /\ exitCode' = ExitSuccess
              /\ UNCHANGED thrown
  /\ UNCHANGED <<clientVars, configured, optPlatform, optDryRun, optConfig,
                 runSecrets, platformsToSync, pending, results, calls, raised,
                 cacheVars, adapterVars>>

\* The same for a loop that stops at the first failed platform.
SyncSummaryFailFast ==
  SyncSummaryWhen(\/ Len(results) = Len(platformsToSync)
                  \/ results # <<>> /\ ~results[Len(results)].success)

SyncSummary == SyncSummaryWhen(Len(results) = Len(platformsToSync))

\* The catch of program.parseAsync in the entry point: handleError.
SyncHandleError ==
  /\ pc = "thrown"
  /\ exitCode' = handleError(thrown)
  /\ pc' = "exited"
  /\ UNCHANGED <<clientVars, configured, optPlatform, optDryRun, optConfig,
                 runSecrets, platformsToSync, pending, results, calls, raised, thrown,
                 cacheVars, adapterVars>>

NextSync ==
  \/ SyncStart
  \/ SyncPlatformSkip
  \/ SyncPlatformDiff
  \/ SyncPlatformApply
  \/ SyncSummary
  \/ SyncHandleError

SpecSync == InitSync /\ [][NextSync]_vars

(***************************************************************************)
(* Properties of the sync command (SpecSync).                              *)
(***************************************************************************)
DiffCalled(p) == \E j \in DOMAIN calls : calls[j].platform = p /\ calls[j].op = "diff"

ApplyCalled(p) == \E j \in DOMAIN calls : calls[j].platform = p /\ calls[j].op = "apply"

ApplySucceeded(p) == Call(p, "apply", TRUE) \in Elems(calls)

\* C1 as claimed: in a dry run diff is invoked for each processed platform,
\* syncFromDoppler is never invoked and no step changes a platform's secrets.
C1_DryRun ==
  [][optDryRun =>
       /\ fbStore' = fbStore /\ cfStore' = cfStore
       /\ \A j \in DOMAIN calls' : calls'[j].op # "apply"
       /\ \A i \in DOMAIN results' :
            \E j \in DOMAIN calls' : calls'[j] = Call(results'[i].platform, "diff", TRUE)]_vars

\* C1 amended: in a dry run diff is invoked for each processed platform that
\* has a configured client, syncFromDoppler is never invoked and no step
\* changes a platform's secrets.
C1_DryRunAmended ==
  [][optDryRun =>
       /\ fbStore' = fbStore /\ cfStore' = cfStore
       /\ \A j \in DOMAIN calls' : calls'[j].op # "apply"
       /\ \A i \in DOMAIN results' :
            results'[i].platform \in configured =>
              \E j \in DOMAIN calls' : calls'[j] = Call(results'[i].platform, "diff", TRUE)]_vars

\* A finished dry run over both platforms whose diffs found work to do.
C1_Witness ==
  /\ optDryRun /\ pc = "exited" /\ exitCode = ExitSuccess
  /\ Len(results) = 2
  /\ results[1].added > 0 /\ results[2].removed > 0

\* C2: every platform of the run gets its outcome, in order, whatever
\* happened to the others; an outcome is a success exactly when the
\* platform's own diff ran and, outside a dry run, its own syncFromDoppler
\* returned; a failed outcome records an error.
C2_FailureIsolation ==
  /\ \A i \in DOMAIN results :
       LET r == results[i]
       IN  /\ r.platform = platformsToSync[i]
           /\ r.success <=> /\ r.platform \in configured
                            /\ DiffCalled(r.platform)
                            /\ optDryRun \/ ApplySucceeded(r.platform)
           /\ ~r.success => r.error # NoMsg
           /\ (r.platform \in configured /\ ~optDryRun) => ApplyCalled(r.platform)
  /\ pc \in {"thrown", "exited"} => Len(results) = Len(platformsToSync)

\* Firebase's syncFromDoppler raised, Cloudflare was still synced.
C2_Witness ==
  /\ pc = "exited"
  /\ Len(results) = 2
  /\ ~results[1].success /\ Call("firebase", "apply", FALSE) \in Elems(calls)
  /\ results[2].success /\ ApplySucceeded("cloudflare")

\* C5: when the canonical map cannot be obtained, no client is called, no
\* outcome is produced and the error leaves the command unchanged.
C5_FetchFailureAborts ==
  raised # NoError =>
    /\ calls = <<>>
    /\ results = <<>>
    /\ thrown = raised
    /\ pc \in {"thrown", "exited"}

\* The provider fetch failed with both platforms configured.
C5_Witness ==
  /\ pc = "thrown"
  /\ raised = PlainError("Command failed: doppler secrets download")
  /\ configured = {"firebase", "cloudflare"}

AllSucceeded == \A i \in DOMAIN results : results[i].success

\* C6 as claimed: a run ends with status 0 exactly when every outcome is a
\* success; a failed outcome ends it with a platform error and status 4,
\* raised after the last platform.
C6_ExitStatus ==
  /\ pc = "exited" => (exitCode = ExitSuccess <=> AllSucceeded)
  /\ (pc \in {"thrown", "exited"} /\ ~AllSucceeded) =>
       /\ thrown.name = "PlatformError"
       /\ Len(results) = Len(platformsToSync)
       /\ pc = "exited" => exitCode = ExitPlatformError

\* C6 amended: the same for a run that obtained its canonical map.
C6_ExitStatusAmended ==
  /\ (pc = "exited" /\ raised = NoError) => (exitCode = ExitSuccess <=> AllSucceeded)
  /\ (pc \in {"thrown", "exited"} /\ ~AllSucceeded) =>
       /\ thrown.name = "PlatformError"
       /\ Len(results) = Len(platformsToSync)
       /\ pc = "exited" => exitCode = ExitPlatformError

\* A run over two platforms that ended with status 4 after one failure.
C6_Witness ==
  /\ pc = "exited" /\ exitCode = ExitPlatformError
  /\ Len(results) = 2
  /\ results[1].success /\ ~results[2].success

(***************************************************************************)
(* getSecrets (packages/runtime/src/core.ts) called by concurrent          *)
(* handlers of one process, with the clock advancing between steps.        *)
(***************************************************************************)
Init ==
  /\ cache = [k \in {} |-> 0]
  /\ now = 0
  /\ env = ProcessEnv
  /\ inflight = EmptyBag
  /\ last = NoCall
  /\ appFallback \in {"env", "none"}
  /\ refreshes = EmptyBag
  /\ stored = [k \in {} |-> 0]
  /\ secrets = EmptyMap /\ fbStore = EmptyMap /\ cfStore = EmptyMap
  /\ InitClientState
  /\ InitAdaptersIdle
  /\ InitSyncIdle

Settled(via, result, fetchError, error) ==
  [via |-> via, result |-> result, fetchError |-> fetchError, error |-> error]

\* getSecrets up to the await: the env source, the cache check, or the
\* start of fetchFromDoppler.
GetSecretsStart(config) ==
  /\ BagCardinality(inflight) < NumCallers
  /\ config.fallback = appFallback
  /\ LET cached == IF config.ttl > 0
                   THEN SecretsCacheGet(cache, now, config.project, config.config)
                   ELSE Null
     IN  IF config.source = "env"
         THEN /\ last' = Settled("source-env", fetchFromEnv(config, env), "", "")
              /\ UNCHANGED inflight
         ELSE IF cached # Null
         THEN /\ last' = Settled("cache", Requested(cached[1], config), "", "")
              /\ UNCHANGED inflight
         ELSE /\ inflight' = inflight (+) SetToBag({config})
              /\ UNCHANGED last
  /\ UNCHANGED <<cache, now, env, appFallback, refreshes, stored, clientVars, syncVars, adapterVars>>

\* getSecrets after the await, fetchFromDoppler having resolved.
GetSecretsFetched(config) ==
  /\ BagIn(config, inflight)
  /\ LET fetched == fetchFromDoppler(config)
     IN  /\ IF config.ttl > 0
            THEN /\ cache' = SecretsCacheSet(cache, now, config.project, config.config,
                                             fetched, config.ttl)
                 /\ stored' = [k \in DOMAIN stored \cup {getKey(config.project, config.config)} |->
                                 IF k = getKey(config.project, config.config)
                                 THEN [at |-> now, ttl |-> config.ttl] ELSE stored[k]]
            ELSE UNCHANGED <<cache, stored>>
         /\ last' = Settled("fetch", Requested(fetched, config), "", "")
  /\ inflight' = inflight (-) SetToBag({config})
  /\ UNCHANGED <<now, env, appFallback, refreshes, clientVars, syncVars, adapterVars>>

\* Variant: the env fallback is tried before the stale entry.
GetSecretsCatchEnvFirst(entries, environ, config, error) ==
  LET stale == SecretsCacheGetStale(entries, config.project, config.config)
  IN  IF config.fallback = "env"
      THEN Settled("env", fetchFromEnv(config, environ), error, "")
      ELSE IF stale # Null
      THEN Settled("stale", Requested(stale[1], config), error, "")
      ELSE Settled("rejected", NoCall.result, error, error)

\* The value the catch of getSecrets settles with.
GetSecretsCatch(entries, environ, config, error) ==
  LET stale == SecretsCacheGetStale(entries, config.project, config.config)
  IN  IF stale # Null
      THEN Settled("stale", Requested(stale[1], config), error, "")
      ELSE IF config.fallback = "env"
      THEN Settled("env", fetchFromEnv(config, environ), error, "")
      ELSE Settled("rejected", NoCall.result, error, error)

\* getSecrets after the await, fetchFromDoppler having rejected: the catch.
GetSecretsFailed(config) ==
  /\ BagIn(config, inflight)
  /\ \E error \in FetchErrors : last' = GetSecretsCatch(cache, env, config, error)
  /\ inflight' = inflight (-) SetToBag({config})
  /\ UNCHANGED <<cache, now, env, appFallback, refreshes, stored, clientVars, syncVars, adapterVars>>

\* clearSecretsCache.
ClearSecretsCache ==
  /\ cache' = SecretsCacheClear(cache)
  /\ stored' = [k \in {} |-> 0]
  /\ UNCHANGED <<now, env, inflight, last, appFallback, refreshes, clientVars, syncVars, adapterVars>>

\* Time passes.
Tick ==
  /\ now < MaxTicks * TickMs
  /\ now' = now + TickMs
  /\ UNCHANGED <<cache, env, inflight, last, appFallback, refreshes, stored, clientVars, syncVars, adapterVars>>

Next ==
  \/ \E config \in SecretsConfigs : GetSecretsStart(config)
  \/ \E config \in SecretsConfigs : GetSecretsFetched(config)
  \/ \E config \in SecretsConfigs : GetSecretsFailed(config)
  \/ ClearSecretsCache
  \/ Tick

Spec == Init /\ [][Next]_vars

(***************************************************************************)
(* Properties of getSecrets.                                               *)
(***************************************************************************)
KeyOf(config) == getKey(config.project, config.config)

MapKeys(m, keys) == [k \in keys \cap DOMAIN m |-> m[k]]

RestrictedTo(m, keys) == IF keys = {} THEN m ELSE MapKeys(m, keys)

CachingCall(config) == config.source = "doppler" /\ config.ttl > 0

\* The number of provider fetches in flight for a key on behalf of calls
\* that use the cache.
FetchesInFlight(key) ==
  LET S == {config \in BagToSet(inflight) : CachingCall(config) /\ KeyOf(config) = key}
      count[T \in SUBSET S] ==
        IF T = {} THEN 0
        ELSE LET x == CHOOSE x \in T : TRUE IN CopiesIn(x, inflight) + count[T \ {x}]
  IN  count[S]

\* C7: for a (project, config) whose secrets were stored at time `at` by a
\* successful fetch of a call with ttl t > 0, a getSecrets call with the same
\* ttl made no later than at + t seconds is answered with no provider fetch,
\* and a call made after that instant, or with nothing stored, starts
\* exactly one provider fetch.
C7_CacheTtl ==
  [][\A config \in SecretsConfigs :
       (GetSecretsStart(config) /\ CachingCall(config)) =>
         IF /\ KeyOf(config) \in DOMAIN stored
            /\ stored[KeyOf(config)].ttl = config.ttl
            /\ now <= stored[KeyOf(config)].at + config.ttl * MsPerSecond
         THEN inflight' = inflight /\ last'.via = "cache"
         ELSE /\ BagCardinality(inflight') = BagCardinality(inflight) + 1
              /\ CopiesIn(config, inflight') = CopiesIn(config, inflight) + 1
              /\ last' = last]_vars

\* A call was answered from the cache later than the fetch that stored the
\* entry, and a call made after the ttl elapsed is fetching again.
C7_Witness ==
  /\ last.via = "cache"
  /\ \E config \in BagToSet(inflight) :
       /\ CachingCall(config)
       /\ BagCardinality(inflight) = 1
       /\ KeyOf(config) \in DOMAIN stored
       /\ DOMAIN stored = {KeyOf(config)}
       /\ now > stored[KeyOf(config)].at + config.ttl * MsPerSecond

\* C8: when the provider fetch of a getSecrets call fails and the cache holds
\* an entry for its (project, config), expired or not, the call returns that
\* entry's secrets restricted to the requested keys, raises nothing and does
\* not read the environment, whatever the fallback setting.
C8_StaleFallback ==
  [][\A config \in SecretsConfigs :
       (GetSecretsFailed(config) /\ KeyOf(config) \in DOMAIN cache) =>
         /\ last'.via = "stale"
         /\ last'.error = ""
         /\ last'.result = RestrictedTo(cache[KeyOf(config)].secrets, config.keys)]_vars

\* A failed fetch was answered from expired entries with fallback 'none'.
C8_Witness ==
  /\ last.via = "stale"
  /\ last.fetchError \in FetchErrors
  /\ appFallback = "none"
  /\ cache # SecretsCacheClear(cache)
  /\ \A key \in DOMAIN cache : now > cache[key].expiresAt

\* C9: when the provider fetch of a getSecrets call fails and the cache holds
\* no entry for its (project, config): with fallback 'env' the call returns
\* the environment's values of the requested keys (of all upper-case names
\* when no keys are requested); with fallback 'none' it rejects with the
\* fetch error itself.
C9_EnvFallbackOrRethrow ==
  [][\A config \in SecretsConfigs : \A error \in FetchErrors :
       (/\ GetSecretsFailed(config)
        /\ last'.fetchError = error
        /\ KeyOf(config) \notin DOMAIN cache) =>
         IF config.fallback = "env"
         THEN /\ last'.via = "env"
              /\ last'.error = ""
              /\ last'.result = IF config.keys = {}
                                THEN MapKeys(env, UpperSnake)
                                ELSE MapKeys(env, config.keys)
         ELSE /\ last'.via = "rejected"
              /\ last'.error = error]_vars

\* With nothing cached, a failed fetch for requested keys K1 and K3 was
\* answered from the environment, which sets K1 and K2 only.
C9_Witness ==
  /\ last.via = "env"
  /\ last.fetchError \in FetchErrors
  /\ cache = SecretsCacheClear(cache)
  /\ DOMAIN last.result = {"K1"}
  /\ last.result["K1"] = env["K1"]

\* C10: at most one provider fetch per (project, config) is in flight at any
\* time on behalf of getSecrets calls with ttl > 0.
C10_SingleFlight ==
  \A config \in SecretsConfigs : FetchesInFlight(KeyOf(config)) <= 1

(***************************************************************************)
(* refreshSecretsBackground (packages/runtime/src/core.ts), interleaved    *)
(* with getSecrets and clearSecretsCache.                                  *)
(***************************************************************************)
MaxRefreshes == 2

\* The configs this application refreshes and reads with: a ttl above zero,
\* no key filter, no fallback.
RefreshConfigs ==
  {config \in SecretsConfigs :
     /\ config.source = "doppler" /\ config.ttl > 0
     /\ config.keys = {} /\ config.fallback = "none"}

InitRefresh ==
  /\ cache = [k \in {} |-> 0]
  /\ now = 0
  /\ env = ProcessEnv
  /\ inflight = EmptyBag
  /\ last = NoCall
  /\ appFallback = "none"
  /\ refreshes = EmptyBag
  /\ stored = [k \in {} |-> 0]
  /\ secrets = EmptyMap /\ fbStore = EmptyMap /\ cfStore = EmptyMap
  /\ InitClientState
  /\ InitAdaptersIdle
  /\ InitSyncIdle

\* A background refresh: awaiting fetchFromDoppler ("fetching"), or with its
\* then callback ("stored") or its catch callback ("failed") run and its
\* finally callback still to run.
Refresh(config, at) == [config |-> config, pc |-> at]

\* refreshSecretsBackground, the synchronous part: return when the key is
\* marked as refreshing, else mark it and start fetchFromDoppler.
RefreshStart(config) ==
  /\ BagCardinality(refreshes) < MaxRefreshes
  /\ IF SecretsCacheIsRefreshing(cache, config.project, config.config)
     THEN UNCHANGED <<cache, refreshes>>
     ELSE /\ cache' = SecretsCacheSetRefreshing(cache, config.project, config.config, TRUE)
          /\ refreshes' = refreshes (+) SetToBag({Refresh(config, "fetching")})
  /\ UNCHANGED <<now, env, inflight, last, appFallback, stored, clientVars, syncVars, adapterVars>>

\* The then callback: fetchFromDoppler resolved, the secrets are stored.
RefreshFetched(config) ==
  /\ BagIn(Refresh(config, "fetching"), refreshes)
  /\ cache' = SecretsCacheSet(cache, now, config.project, config.config,
                              fetchFromDoppler(config), config.ttl)
  /\ stored' = [k \in DOMAIN stored \cup {getKey(config.project, config.config)} |->
                  IF k = getKey(config.project, config.config)
                  THEN [at |-> now, ttl |-> config.ttl] ELSE stored[k]]
  /\ refreshes' = (refreshes (-) SetToBag({Refresh(config, "fetching")}))
                    (+) SetToBag({Refresh(config, "stored")})
  /\ UNCHANGED <<now, env, inflight, last, appFallback, clientVars, syncVars, adapterVars>>

\* delete: the entry of the key is removed.
SecretsCacheDelete(entries, project, config) ==
  [k \in DOMAIN entries \ {getKey(project, config)} |-> entries[k]]

\* Variant: a catch callback that drops the entry of the key.
RefreshFailedDropsEntry(config) ==
  /\ BagIn(Refresh(config, "fetching"), refreshes)
  /\ cache' = SecretsCacheDelete(cache, config.project, config.config)
  /\ refreshes' = (refreshes (-) SetToBag({Refresh(config, "fetching")}))
                    (+) SetToBag({Refresh(config, "failed")})
  /\ UNCHANGED <<now, env, inflight, last, appFallback, stored, clientVars, syncVars, adapterVars>>

\* The catch callback: fetchFromDoppler rejected, a warning is logged.
RefreshFailed(config) ==
  /\ BagIn(Refresh(config, "fetching"), refreshes)
  /\ refreshes' = (refreshes (-) SetToBag({Refresh(config, "fetching")}))
                    (+) SetToBag({Refresh(config, "failed")})
  /\ UNCHANGED <<cache, now, env, inflight, last, appFallback, stored, clientVars, syncVars, adapterVars>>

\* The finally callback, after either of the two: the mark is removed.
RefreshFinally(config) ==
  /\ \E at \in {"stored", "failed"} :
       /\ BagIn(Refresh(config, at), refreshes)
       /\ refreshes' = refreshes (-) SetToBag({Refresh(config, at)})
  /\ cache' = SecretsCacheSetRefreshing(cache, config.project, config.config, FALSE)
  /\ UNCHANGED <<now, env, inflight, last, appFallback, stored, clientVars, syncVars, adapterVars>>

NextRefresh ==
  \/ \E config \in RefreshConfigs : RefreshStart(config)
  \/ \E config \in RefreshConfigs : RefreshFetched(config)
  \/ \E config \in RefreshConfigs : RefreshFailed(config)
  \/ \E config \in RefreshConfigs : RefreshFinally(config)
  \/ \E config \in RefreshConfigs : GetSecretsStart(config)
  \/ \E config \in RefreshConfigs : GetSecretsFetched(config)
  \/ \E config \in RefreshConfigs : GetSecretsFailed(config)
  \/ ClearSecretsCache
  \/ Tick

SpecRefresh == InitRefresh /\ [][NextRefresh]_vars

(***************************************************************************)
(* Properties of refreshSecretsBackground (SpecRefresh).                   *)
(***************************************************************************)
\* The number of background refreshes of a key awaiting fetchFromDoppler.
RefreshFetches(key) ==
  LET S == {r \in BagToSet(refreshes) : r.pc = "fetching" /\ KeyOf(r.config) = key}
      count[T \in SUBSET S] ==
        IF T = {} THEN 0
        ELSE LET x == CHOOSE x \in T : TRUE IN CopiesIn(x, refreshes) + count[T \ {x}]
  IN  count[S]

\* C11: a refreshSecretsBackground call made while a background refresh of
\* the same (project, config) has not completed starts no provider fetch,
\* with or without a cache entry for the key, so at most one background
\* fetch per key is in flight.
C11_RefreshIdempotent ==
  \A config \in RefreshConfigs : RefreshFetches(KeyOf(config)) <= 1

(***************************************************************************)
(* Further properties of getSecrets (Spec).                                *)
(***************************************************************************)
\* C12: a getSecrets call with ttl = 0 always starts a provider fetch, never
\* stores what it fetched and never returns secrets taken from the cache.
C12_TtlZeroDisablesCache ==
  [][\A config \in SecretsConfigs :
       (config.source = "doppler" /\ config.ttl = 0) =>
         /\ GetSecretsStart(config) =>
              CopiesIn(config, inflight') = CopiesIn(config, inflight) + 1
         /\ GetSecretsFetched(config) => cache' = cache
         /\ (GetSecretsFetched(config) \/ GetSecretsFailed(config)) =>
              last'.via \notin {"cache", "stale"}]_vars

(***************************************************************************)
(* Further properties of the sync command (SpecSync).                      *)
(***************************************************************************)
NotConfiguredTexts == {"Firebase not configured", "Cloudflare not configured"}

\* The error syncPlatform records for a named platform it has no client for.
NoClientText(platform) ==
  CASE platform = "firebase" -> "Firebase not configured"
    [] platform = "cloudflare" -> "Cloudflare not configured"
    [] OTHER -> "Platform not yet supported"

Finished == pc \in {"thrown", "exited"}

\* The one failed outcome of a finished run that named a platform without
\* a client, and the failure of the command.
SingleFailedOutcome ==
  /\ Len(results) = 1
  /\ results[1].platform = optPlatform
  /\ ~results[1].success
  /\ thrown.name = "PlatformError"
  /\ pc = "exited" => exitCode = ExitPlatformError

\* C13 as claimed: when a platform is named, no client of another platform is
\* called; when the named platform has no configured client, the finished run
\* (having obtained its canonical map) has exactly one outcome, for that
\* platform, failed with a not-configured error, and the command fails.
C13_PlatformFilter ==
  optPlatform # "" =>
    /\ \A j \in DOMAIN calls : calls[j].platform = optPlatform
    /\ (optPlatform \notin configured /\ Finished /\ raised = NoError) =>
         /\ SingleFailedOutcome
         /\ results[1].error.text \in NotConfiguredTexts

\* C13 amended: the same, the error being "not configured" for firebase and
\* cloudflare and "not yet supported" for a platform syncPlatform has no
\* case for.
C13_PlatformFilterAmended ==
  optPlatform # "" =>
    /\ \A j \in DOMAIN calls : calls[j].platform = optPlatform
    /\ (optPlatform \notin configured /\ Finished /\ raised = NoError) =>
         /\ SingleFailedOutcome
         /\ results[1].error = Msg(NoClientText(optPlatform), {})

\* firebase was named with only cloudflare configured: one failed outcome,
\* no client call, exit status 4.
C13_Witness ==
  /\ optPlatform = "firebase" /\ configured = {"cloudflare"}
  /\ pc = "exited" /\ exitCode = ExitPlatformError
  /\ Len(results) = 1 /\ results[1].error.text = "Firebase not configured"
  /\ calls = <<>>

\* The platforms a run processes: the named one, or the configured clients,
\* firebase before cloudflare.
ExpectedPlatforms ==
  IF optPlatform # "" THEN <<optPlatform>>
  ELSE SelectSeq(<<"firebase", "cloudflare">>, LAMBDA p : p \in configured)

SameKeys(C) == [DOMAIN C -> Values]

\* An error text that is the same whatever the values of the canonical map:
\* every command-line argument it quotes is an argument of the command for
\* every map with the same names.
ValueFree(msg) ==
  \A other \in SameKeys(runSecrets) : msg.args \subseteq FirebasePairs(other)

\* C15: the error text of every outcome, and of the error handed to the
\* top-level handler, is the same for any two canonical maps with the same
\* names and the same platform behaviour.
C15_ErrorsIndependentOfValues ==
  /\ \A i \in DOMAIN results : ValueFree(results[i].error)
  /\ ValueFree(thrown.message)
  /\ \A i \in DOMAIN thrown.details : ValueFree(thrown.details[i].error)

(***************************************************************************)
(* Further properties of the platform clients (SpecClient).                *)
(***************************************************************************)
\* C16: a diff call leaves the stored secrets of both platforms as they
\* are, and a diff that follows a diff of the same client, the platform
\* state and the canonical map being unchanged in between, returns the same
\* result.
C16_DiffPure ==
  [][lastOp'.op = "diff" =>
       /\ fbStore' = fbStore /\ cfStore' = cfStore
       /\ (lastOp.op = "diff" /\ lastOp.platform = lastOp'.platform) =>
            lastOp'.diff = lastOp.diff]_vars

Payload(entries) ==
  [k \in DOMAIN entries |->
     [secrets |-> entries[k].secrets, expiresAt |-> entries[k].expiresAt]]

\* C18: no step of a background refresh whose fetch fails (its start, its
\* catch callback, the finally callback after it) changes the secrets or the
\* expiresAt of the entry of its key or of any other key, or adds or removes
\* an entry.
C18_RefreshFailureKeepsEntry ==
  [][\A config \in RefreshConfigs :
       (\/ RefreshStart(config)
        \/ RefreshFailed(config)
        \/ /\ RefreshFinally(config)
           /\ BagIn(Refresh(config, "failed"), refreshes)
           /\ ~BagIn(Refresh(config, "stored"), refreshes)) =>
         Payload(cache') = Payload(cache)]_vars

\* The refresh of an expired entry has failed, another key has an entry too.
C18_Witness ==
  \E config \in RefreshConfigs :
    /\ BagIn(Refresh(config, "failed"), refreshes)
    /\ KeyOf(config) \in DOMAIN cache
    /\ now > cache[KeyOf(config)].expiresAt
    /\ DOMAIN cache # {KeyOf(config)}

\* C19: while a background refresh of a key awaits its fetch the key is
\* marked as refreshing, and a key with no background refresh under way is
\* not marked.
C19_RefreshingFlag ==
  \A config \in RefreshConfigs :
    /\ RefreshFetches(KeyOf(config)) > 0 =>
         SecretsCacheIsRefreshing(cache, config.project, config.config)
    /\ (\A r \in BagToSet(refreshes) : KeyOf(r.config) # KeyOf(config)) =>
         ~SecretsCacheIsRefreshing(cache, config.project, config.config)

(***************************************************************************)
(* The diff of the Firebase client against the stored values (SpecClient). *)
(***************************************************************************)
\* The values the canonical map holds under the names whose platform name
\* is l.
CanonValues(l) == {secrets[k] : k \in {x \in DOMAIN secrets : toLowerCase(x) = l}}

\* C20: after a Firebase diff, toAdd is exactly the canonical names (in
\* platform naming) absent from the stored config, toRemove exactly the
\* stored names absent from the canonical map, and toUpdate exactly the names
\* on both sides whose canonical value differs from the stored value; a name
\* on both sides with equal values is in none of the three.
C20_ValueVisibleDiff ==
  (lastOp.op = "diff" /\ lastOp.platform = "firebase") =>
    LET names == PlatformNames("firebase", secrets)
    IN  /\ Elems(lastOp.diff.toAdd) = names \ DOMAIN fbStore
        /\ Elems(lastOp.diff.toRemove) = DOMAIN fbStore \ names
        /\ Elems(lastOp.diff.toUpdate) =
             {l \in names \cap DOMAIN fbStore : CanonValues(l) # {fbStore[l]}}

MaxInitCalls == 3
MaxResets == 1
MaxRefreshCalls == 1
MaxTimerFires == 1

\* CloudRunSecretsOptions, with the SecretsConfig the body builds from them
\* (source 'doppler') resolved as in SecretsConfigs.
CloudRunSecretsOptions ==
  [source : {"doppler"}, project : {"p1"}, config : {"dev"},
   ttl : {0, 1}, fallback : {"env", "none"}, keys : {{}},
   refreshInterval : {0, 1}]

\* { ...config, cache: { ttl: 0 } }
ForceFresh(options) == [options EXCEPT !.ttl = 0]

NotInitialized == "Secrets not initialized. Call initSecrets() first."

\* getSecret: the error it throws, or the value (undefined for a missing key).
getSecret(held, isInit, key) ==
  IF ~isInit \/ held = Null
  THEN [raised |-> NotInitialized, value |-> Undefined]
  ELSE [raised |-> "", value |-> IF key \in DOMAIN held[1] THEN held[1][key] ELSE Undefined]

\* getAllSecrets: the error it throws, or a copy of the map.
getAllSecrets(held, isInit) ==
  IF ~isInit \/ held = Null
  THEN [raised |-> NotInitialized, value |-> [k \in {} |-> ""]]
  ELSE [raised |-> "", value |-> held[1]]

\* An async body suspended at its await of getSecrets: got is the answer of
\* the cache check getSecrets made when called, null when it went on to
\* fetchFromDoppler; current says that the promise of the body is the one
\* initPromise holds.
Body(kind, options, current, got) ==
  [kind |-> kind, options |-> options, current |-> current, got |-> got]

InitCloudRun ==
  /\ InitCloudRunIdle
  /\ InitFunctionsIdle
  /\ InitHooksIdle
  /\ InitCacheIdle
  /\ secrets = EmptyMap /\ fbStore = EmptyMap /\ cfStore = EmptyMap
  /\ InitClientState
  /\ InitSyncIdle

\* initSecrets when initPromise is set: the promise is returned as it is.
InitSecretsReturn ==
  /\ crHist' = [crHist EXCEPT !.calls = @ + 1, !.ops.init = @ + 1]
  /\ UNCHANGED <<crSecrets, initialized, initPromise, refreshTimer, timers, crPending>>

\* initSecrets when it creates the promise: the body runs up to its await,
\* getSecrets having checked the cache.
InitSecretsBody(options) ==
  LET cached == IF options.ttl > 0
                THEN SecretsCacheGet(cache, now, options.project, options.config)
                ELSE Null
      got == IF cached # Null THEN Some(Requested(cached[1], options)) ELSE Null
  IN  /\ initPromise' = "pending"
      /\ crPending' = crPending (+) SetToBag({Body("init", options, TRUE, got)})
      /\ crHist' = [crHist EXCEPT !.calls = @ + 1, !.bodies = @ + 1,
                                  !.hits = @ + (IF got # Null THEN 1 ELSE 0),
                                  !.fetches = @ + (IF got = Null THEN 1 ELSE 0),
                                  !.ops.init = @ + 1]
      /\ UNCHANGED <<crSecrets, initialized, refreshTimer, timers>>

\* Variant: every call starts a body of its own.
InitSecretsUnguarded(options) ==
  /\ crHist.ops.init < MaxInitCalls
  /\ InitSecretsBody(options)
  /\ UNCHANGED <<clientVars, syncVars, cacheVars, functionsVars, hooksVars>>

InitSecrets(options) ==
  /\ crHist.ops.init < MaxInitCalls
  /\ IF initPromise # "null" THEN InitSecretsReturn ELSE InitSecretsBody(options)
  /\ UNCHANGED <<clientVars, syncVars, cacheVars, functionsVars, hooksVars>>

\* The cache and its record after getSecrets stored what it fetched.
CachedAfterFetch(config, fetched) ==
  IF config.ttl > 0
  THEN /\ cache' = SecretsCacheSet(cache, now, config.project, config.config,
                                   fetched, config.ttl)
       /\ stored' = [k \in DOMAIN stored \cup {getKey(config.project, config.config)} |->
                       IF k = getKey(config.project, config.config)
                       THEN [at |-> now, ttl |-> config.ttl] ELSE stored[k]]
  ELSE UNCHANGED <<cache, stored>>

\* The body of initSecrets after its await, getSecrets having settled with s.
InitBodyResume(b, s) ==
  /\ crPending' = crPending (-) SetToBag({b})
  /\ initPromise' = IF ~b.current THEN initPromise
                    ELSE IF s.via = "rejected" THEN "rejected" ELSE "fulfilled"
  /\ IF s.via = "rejected"
     THEN UNCHANGED <<crSecrets, initialized, refreshTimer, timers, crHist>>
     ELSE /\ crSecrets' = Some(s.result)
          /\ initialized' = TRUE
          /\ crHist' = [crHist EXCEPT !.completed = @ + 1]
          /\ IF b.options.refreshInterval > 0
             THEN /\ refreshTimer' = Some(b.options)
                  /\ timers' = timers (+) SetToBag({b.options})
             ELSE UNCHANGED <<refreshTimer, timers>>

\* The body resumes with the map the cache held.
InitBodyCached(b) ==
  /\ BagIn(b, crPending) /\ b.kind = "init" /\ b.got # Null
  /\ InitBodyResume(b, Settled("cache", b.got[1], "", ""))
  /\ UNCHANGED <<clientVars, syncVars, cacheVars, functionsVars, hooksVars>>

\* The body resumes, fetchFromDoppler having resolved.
InitBodyFetched(b) ==
  /\ BagIn(b, crPending) /\ b.kind = "init" /\ b.got = Null
  /\ LET fetched == fetchFromDoppler(b.options)
     IN  /\ CachedAfterFetch(b.options, fetched)
         /\ InitBodyResume(b, Settled("fetch", Requested(fetched, b.options), "", ""))
  /\ UNCHANGED <<now, env, inflight, last, appFallback, refreshes, clientVars, syncVars,
               functionsVars, hooksVars>>

\* The body resumes, fetchFromDoppler having rejected: the catch of
\* getSecrets decides between the stale entry, the environment and the error.
InitBodyFailed(b, error) ==
  /\ BagIn(b, crPending) /\ b.kind = "init" /\ b.got = Null
  /\ InitBodyResume(b, GetSecretsCatch(cache, env, b.options, error))
  /\ UNCHANGED <<clientVars, syncVars, cacheVars, functionsVars, hooksVars>>

\* refreshSecrets up to its await: ttl 0 skips the cache check.
RefreshSecretsCall(options) ==
  /\ crHist.ops.refresh < MaxRefreshCalls
  /\ options.refreshInterval = 0
  /\ crPending' = crPending (+) SetToBag({Body("refresh", ForceFresh(options), FALSE, Null)})
  /\ crHist' = [crHist EXCEPT !.ops.refresh = @ + 1]
  /\ UNCHANGED <<crSecrets, initialized, initPromise, refreshTimer, timers>>
  /\ UNCHANGED <<clientVars, syncVars, cacheVars, functionsVars, hooksVars>>

\* The callback of a live interval up to its await.
TimerFire(options) ==
  /\ crHist.ops.fire < MaxTimerFires
  /\ BagIn(options, timers)
  /\ crPending' = crPending (+) SetToBag({Body("refresh", ForceFresh(options), FALSE, Null)})
  /\ crHist' = [crHist EXCEPT !.ops.fire = @ + 1]
  /\ UNCHANGED <<crSecrets, initialized, initPromise, refreshTimer, timers>>
  /\ UNCHANGED <<clientVars, syncVars, cacheVars, functionsVars, hooksVars>>

\* refreshSecrets, or the interval callback, after the await: secrets is
\* assigned unless getSecrets rejected; initialized is left alone.
RefreshResume(b, s) ==
  /\ crPending' = crPending (-) SetToBag({b})
  /\ crSecrets' = IF s.via = "rejected" THEN crSecrets ELSE Some(s.result)
  /\ UNCHANGED <<initialized, initPromise, refreshTimer, timers, crHist>>

RefreshFetchedCloudRun(b) ==
  /\ BagIn(b, crPending) /\ b.kind = "refresh"
  /\ RefreshResume(b, Settled("fetch", Requested(fetchFromDoppler(b.options), b.options), "", ""))
  /\ UNCHANGED <<clientVars, syncVars, cacheVars, functionsVars, hooksVars>>

RefreshFailedCloudRun(b, error) ==
  /\ BagIn(b, crPending) /\ b.kind = "refresh"
  /\ RefreshResume(b, GetSecretsCatch(cache, env, b.options, error))
  /\ UNCHANGED <<clientVars, syncVars, cacheVars, functionsVars, hooksVars>>

\* The promises of the suspended bodies are no longer the one the module holds.
Retire(bag) ==
  LET Old(b) == [b EXCEPT !.current = FALSE]
      Copies(b) == IF b \in DOMAIN bag THEN bag[b] ELSE 0
  IN  [r \in {Old(b) : b \in DOMAIN bag} |->
         Copies(r) + Copies([r EXCEPT !.current = TRUE])]

\* stopAutoRefresh: the interval the module holds is cleared.
StopAutoRefresh ==
  IF refreshTimer # Null
  THEN /\ timers' = timers (-) SetToBag({refreshTimer[1]})
       /\ refreshTimer' = Null
  ELSE UNCHANGED <<refreshTimer, timers>>

\* reset: the runtime cache is not part of the module state it resets.
CloudRunReset ==
  /\ crHist.ops.reset < MaxResets
  /\ StopAutoRefresh
  /\ crSecrets' = Null
  /\ initialized' = FALSE
  /\ initPromise' = "null"
  /\ crPending' = Retire(crPending)
  /\ crHist' = NoHist([crHist.ops EXCEPT !.reset = @ + 1])
  /\ UNCHANGED <<clientVars, syncVars, cacheVars, functionsVars, hooksVars>>

\* A getSecret or getAllSecrets call by the service.
GetSecretCall(key) ==
  /\ crHist' = [crHist EXCEPT !.lastGet =
                  IF getSecret(crSecrets, initialized, key).raised # ""
                  THEN "raised" ELSE "returned"]
  /\ UNCHANGED <<crSecrets, initialized, initPromise, refreshTimer, timers, crPending>>
  /\ UNCHANGED <<clientVars, syncVars, cacheVars, functionsVars, hooksVars>>

NextCloudRun ==
  \/ \E options \in CloudRunSecretsOptions : InitSecrets(options)
  \/ \E b \in BagToSet(crPending) : InitBodyCached(b)
  \/ \E b \in BagToSet(crPending) : InitBodyFetched(b)
  \/ \E b \in BagToSet(crPending), error \in FetchErrors : InitBodyFailed(b, error)
  \/ \E options \in CloudRunSecretsOptions : RefreshSecretsCall(options)
  \/ \E options \in BagToSet(timers) : TimerFire(options)
  \/ \E b \in BagToSet(crPending) : RefreshFetchedCloudRun(b)
  \/ \E b \in BagToSet(crPending), error \in FetchErrors : RefreshFailedCloudRun(b, error)
  \/ CloudRunReset
  \/ \E key \in {"K1"} : GetSecretCall(key)
  \/ Tick

SpecCloudRun == InitCloudRun /\ [][NextCloudRun]_vars

MaxRegistrations == 3
MaxInvocations == 2

\* WithSecretsOptions, with the SecretsConfig built from them resolved.
WithSecretsOptions ==
  [source : {"doppler"}, project : {"p1"}, config : {"dev"},
   ttl : {0, 1}, fallback : {"env", "none"}, keys : {{}, {"K1", "K3"}},
   prefetch : BOOLEAN]

Registrations == {"withSecrets", "withSecretsCallable", "prefetchSecrets"}

\* getSecrets up to its await, called by the functions adapter: the cache
\* check, and the start of fetchFromDoppler when it does not answer.
FunctionsGetSecrets(kind, options) ==
  LET cached == IF options.ttl > 0
                THEN SecretsCacheGet(cache, now, options.project, options.config)
                ELSE Null
      got == IF cached # Null THEN Some(Requested(cached[1], options)) ELSE Null
  IN  /\ fnPending' = fnPending (+) SetToBag({Body(kind, options, TRUE, got)})
      /\ fnHist' = [fnHist EXCEPT
                      !.registrations = @ + (IF kind = "prefetch" THEN 1 ELSE 0),
                      !.prefetches = @ + (IF kind = "prefetch" THEN 1 ELSE 0),
                      !.invocations = @ + (IF kind = "handler" THEN 1 ELSE 0),
                      !.lastVia = IF kind = "handler" THEN "getSecrets" ELSE @,
                      !.fetches = @ + (IF got = Null THEN 1 ELSE 0)]

\* withSecrets, withSecretsCallable (both wrap a handler and start the
\* prefetch unless prefetch is false or one was started) and prefetchSecrets.
Register(registration, options) ==
  /\ fnHist.registrations < MaxRegistrations
  /\ handlers' = IF registration = "prefetchSecrets" THEN handlers
                 ELSE handlers \cup {options}
  /\ IF (registration = "prefetchSecrets" \/ options.prefetch) /\ prefetchPromise = "null"
     THEN /\ prefetchPromise' = "pending"
          /\ FunctionsGetSecrets("prefetch", options)
     ELSE /\ fnHist' = [fnHist EXCEPT !.registrations = @ + 1]
          /\ UNCHANGED <<prefetchPromise, fnPending>>
  /\ UNCHANGED <<prefetchedSecrets, clientVars, syncVars, cacheVars, cloudrunVars, hooksVars>>

\* Variant: the wrapper calls getSecrets on every invocation.
InvokeAlwaysFetching(options) ==
  /\ fnHist.invocations < MaxInvocations
  /\ options \in handlers
  /\ FunctionsGetSecrets("handler", options)
  /\ UNCHANGED <<prefetchedSecrets, prefetchPromise, handlers>>
  /\ UNCHANGED <<clientVars, syncVars, cacheVars, cloudrunVars, hooksVars>>

\* An invocation of a wrapped handler up to its first await: prefetched
\* secrets, else the prefetch promise, else a getSecrets call of its own.
Invoke(options) ==
  /\ fnHist.invocations < MaxInvocations
  /\ options \in handlers
  /\ IF prefetchedSecrets # Null
     THEN /\ fnHist' = [fnHist EXCEPT !.invocations = @ + 1, !.lastVia = "prefetched"]
          /\ UNCHANGED fnPending
     ELSE IF prefetchPromise # "null"
     THEN /\ fnHist' = [fnHist EXCEPT !.invocations = @ + 1, !.lastVia = "promise"]
          /\ UNCHANGED fnPending
     ELSE FunctionsGetSecrets("handler", options)
  /\ UNCHANGED <<prefetchedSecrets, prefetchPromise, handlers>>
  /\ UNCHANGED <<clientVars, syncVars, cacheVars, cloudrunVars, hooksVars>>

\* A getSecrets call of the adapter settles with s: the then of the prefetch
\* stores the secrets; a handler's own call stores nothing in the module.
FunctionsResume(b, s) ==
  /\ fnPending' = fnPending (-) SetToBag({b})
  /\ IF b.kind = "prefetch"
     THEN /\ prefetchPromise' = IF s.via = "rejected" THEN "rejected" ELSE "fulfilled"
          /\ prefetchedSecrets' = IF s.via = "rejected" THEN prefetchedSecrets
                                  ELSE Some(s.result)
     ELSE UNCHANGED <<prefetchedSecrets, prefetchPromise>>
  /\ UNCHANGED <<handlers, fnHist>>

FunctionsCached(b) ==
  /\ BagIn(b, fnPending) /\ b.got # Null
  /\ FunctionsResume(b, Settled("cache", b.got[1], "", ""))
  /\ UNCHANGED <<clientVars, syncVars, cacheVars, cloudrunVars, hooksVars>>

FunctionsFetched(b) ==
  /\ BagIn(b, fnPending) /\ b.got = Null
  /\ LET fetched == fetchFromDoppler(b.options)
     IN  /\ CachedAfterFetch(b.options, fetched)
         /\ FunctionsResume(b, Settled("fetch", Requested(fetched, b.options), "", ""))
  /\ UNCHANGED <<now, env, inflight, last, appFallback, refreshes, clientVars, syncVars,
                 cloudrunVars, hooksVars>>

FunctionsFailed(b, error) ==
  /\ BagIn(b, fnPending) /\ b.got = Null
  /\ FunctionsResume(b, GetSecretsCatch(cache, env, b.options, error))
  /\ UNCHANGED <<clientVars, syncVars, cacheVars, cloudrunVars, hooksVars>>

InitFunctions ==
  /\ InitFunctionsIdle
  /\ InitCloudRunIdle
  /\ InitHooksIdle
  /\ InitCacheIdle
  /\ secrets = EmptyMap /\ fbStore = EmptyMap /\ cfStore = EmptyMap
  /\ InitClientState
  /\ InitSyncIdle

NextFunctions ==
  \/ \E registration \in Registrations, options \in WithSecretsOptions :
       Register(registration, options)
  \/ \E options \in WithSecretsOptions : Invoke(options)
  \/ \E b \in BagToSet(fnPending) : FunctionsCached(b)
  \/ \E b \in BagToSet(fnPending) : FunctionsFetched(b)
  \/ \E b \in BagToSet(fnPending), error \in FetchErrors : FunctionsFailed(b, error)
  \/ ClearSecretsCache
  \/ Tick

SpecFunctions == InitFunctions /\ [][NextFunctions]_vars

\* C23: across any number of withSecrets / withSecretsCallable /
\* prefetchSecrets registrations at most one prefetch is started, and once it
\* has completed successfully no step starts another provider fetch,
\* whatever wrapped handler is invoked.
C23_SinglePrefetch ==
  /\ [](fnHist.prefetches <= 1)
  /\ [][prefetchedSecrets # Null => fnHist'.fetches = fnHist.fetches]_vars

C23_Witness ==
  /\ fnHist.registrations >= 2
  /\ fnHist.prefetches = 1
  /\ prefetchedSecrets # Null
  /\ fnHist.invocations >= 2
  /\ fnHist.lastVia = "prefetched"
  /\ \E options \in handlers : options.ttl = 0

(***************************************************************************)
(* dcs hooks install / uninstall (packages/cli/src/commands/hooks.ts).     *)
(* A file is "absent" or has a content; a content either includes          *)
(* HOOK_MARKER or does not.                                                *)
(***************************************************************************)
\* HOOKS[hookName]: the script dcs writes, which includes the marker.
HookScript(hookName) == "dcs " \o hookName

\* Contents that include HOOK_MARKER: the scripts of this version, and the
\* script an earlier version wrote.
MarkedContents == {HookScript(h) : h \in HookNames} \cup {"dcs earlier"}

\* isDcsHook: the file exists and its content includes the marker.
isDcsHook(content) == content # "absent" /\ content \in MarkedContents

HookResult(op, force, hook, ok) == [op |-> op, force |-> force, hook |-> hook, ok |-> ok]

\* Variant: --force overwrites the hook without keeping a backup.
installHookNoBackup(hook, backup, hookName, force) ==
  IF hook # "absent" /\ ~isDcsHook(hook) /\ ~force
  THEN [hook |-> hook, backup |-> backup, success |-> FALSE]
  ELSE [hook |-> HookScript(hookName), backup |-> backup, success |-> TRUE]

\* installHook: the two files afterwards, and the success of the result.
installHook(hook, backup, hookName, force) ==
  IF hook # "absent"
  THEN IF isDcsHook(hook)
       THEN [hook |-> HookScript(hookName), backup |-> backup, success |-> TRUE]
       ELSE IF ~force
       THEN [hook |-> hook, backup |-> backup, success |-> FALSE]
       ELSE [hook |-> HookScript(hookName), backup |-> hook, success |-> TRUE]
  ELSE [hook |-> HookScript(hookName), backup |-> backup, success |-> TRUE]

\* uninstallHook: the two files afterwards, and the success of the result.
uninstallHook(hook, backup) ==
  IF hook = "absent"
  THEN [hook |-> hook, backup |-> backup, success |-> TRUE]
  ELSE IF ~isDcsHook(hook)
  THEN [hook |-> hook, backup |-> backup, success |-> FALSE]
  ELSE IF backup # "absent"
  THEN [hook |-> backup, backup |-> "absent", success |-> TRUE]
  ELSE [hook |-> "absent", backup |-> backup, success |-> TRUE]

\* --hook <name>: 'all' stands for every hook of HOOKS.
HooksSelected(hook) == IF hook = "all" THEN HookNames ELSE {hook}

\* The repository as the first hooks command finds it: each hook is absent,
\* the user's own script, or a script of an earlier dcs; a .backup file may
\* be lying around.
InitHooks ==
  /\ hookFile \in [HookNames -> {"absent", "user script", "dcs earlier"}]
  /\ backupFile \in [HookNames -> {"absent", "old backup"}]
  /\ hookHist = [found |-> hookFile,
                 last |-> [op |-> "none", force |-> FALSE, hook |-> "all", ok |-> TRUE]]
  /\ InitCloudRunIdle
  /\ InitFunctionsIdle
  /\ InitCacheIdle
  /\ secrets = EmptyMap /\ fbStore = EmptyMap /\ cfStore = EmptyMap
  /\ InitClientState
  /\ InitSyncIdle

\* dcs hooks install [--force] [--hook <name>]
HooksInstall(force, hook) ==
  LET after == [h \in HookNames |->
                  IF h \in HooksSelected(hook)
                  THEN installHook(hookFile[h], backupFile[h], h, force)
                  ELSE [hook |-> hookFile[h], backup |-> backupFile[h], success |-> TRUE]]
  IN  /\ hookFile' = [h \in HookNames |-> after[h].hook]
      /\ backupFile' = [h \in HookNames |-> after[h].backup]
      /\ hookHist' = [hookHist EXCEPT !.last =
                        HookResult("install", force, hook,
                                   \A h \in HookNames : after[h].success)]
      /\ UNCHANGED <<clientVars, syncVars, cacheVars, cloudrunVars, functionsVars>>

\* dcs hooks uninstall [--hook <name>]
HooksUninstall(hook) ==
  LET after == [h \in HookNames |->
                  IF h \in HooksSelected(hook)
                  THEN uninstallHook(hookFile[h], backupFile[h])
                  ELSE [hook |-> hookFile[h], backup |-> backupFile[h], success |-> TRUE]]
  IN  /\ hookFile' = [h \in HookNames |-> after[h].hook]
      /\ backupFile' = [h \in HookNames |-> after[h].backup]
      /\ hookHist' = [hookHist EXCEPT !.last =
                        HookResult("uninstall", FALSE, hook,
                                   \A h \in HookNames : after[h].success)]
      /\ UNCHANGED <<clientVars, syncVars, cacheVars, cloudrunVars, functionsVars>>

NextHooks ==
  \/ \E force \in BOOLEAN, hook \in HookNames \cup {"all"} : HooksInstall(force, hook)
  \/ \E hook \in HookNames \cup {"all"} : HooksUninstall(hook)

SpecHooks == InitHooks /\ [][NextHooks]_vars

\* A hook file that exists and is not managed by dcs.
UserHook(content) == content # "absent" /\ ~isDcsHook(content)

CallsOf(p) == SelectSeq(calls, LAMBDA c : c.platform = p)

Outcomes(p) == SelectSeq(results, LAMBDA r : r.platform = p)

\* Where a platform stands: Diffing is passed through within the diff step.
PlatformStep(p) ==
  IF Outcomes(p) # <<>>
  THEN IF ApplyCalled(p)
       THEN IF Outcomes(p)[1].success THEN "Applied" ELSE "Failed"
       ELSE IF DiffCalled(p)
       THEN IF Outcomes(p)[1].success THEN "DryRunComplete" ELSE "Failed"
       ELSE "NoClient"
  ELSE IF DiffCalled(p) THEN "Applying" ELSE "NotStarted"

StepsAllowed ==
  {<<"NotStarted", "DryRunComplete">>, <<"NotStarted", "Applying">>,
   <<"NotStarted", "Failed">>, <<"NotStarted", "NoClient">>,
   <<"Applying", "Applied">>, <<"Applying", "Failed">>}

\* C25: per platform and per run the steps follow NotStarted -> Diffing ->
\* (DryRunComplete | Applying -> Applied | Applying -> Failed): apply is
\* invoked at most once, only right after that platform's diff returned,
\* and no client call follows a failed call of that platform.
C25_PlatformSteps ==
  /\ [](\A p \in Platforms :
          LET c == CallsOf(p)
          IN  /\ Len(SelectSeq(c, LAMBDA x : x.op = "apply")) <= 1
              /\ Len(SelectSeq(c, LAMBDA x : x.op = "diff")) <= 1
              /\ \A j \in DOMAIN c :
                   /\ c[j].op = "apply" => (j > 1 /\ c[j - 1] = Call(p, "diff", TRUE))
                   /\ ~c[j].ok => j = Len(c)
              /\ Len(Outcomes(p)) <= 1
              /\ PlatformStep(p) = "Applying" <=> (pc = "apply" /\ Current = p))
  /\ [][\A p \in Platforms :
          \/ PlatformStep(p)' = PlatformStep(p)
          \/ <<PlatformStep(p), PlatformStep(p)'>> \in StepsAllowed]_vars

C25_Witness ==
  /\ PlatformStep("firebase") = "Failed"
  /\ CallsOf("firebase") = <<Call("firebase", "diff", TRUE), Call("firebase", "apply", FALSE)>>
  /\ PlatformStep("cloudflare") = "Applied"
  /\ pc = "exited"

\* C26: listing a platform's secrets returns an empty result without error
\* when the platform holds none, and fails when the platform cannot be
\* read: the diff then raises instead of treating the platform as empty.
C26_UnreadablePlatformRaises ==
  lastOp.op = "diff" =>
    /\ lastOp.listOk => (lastOp.ok /\ lastOp.listed =
                           DOMAIN (IF lastOp.platform = "firebase"
                                   THEN fbStore ELSE cfStore))
    /\ ~lastOp.listOk => ~lastOp.ok

\* C27: apply never reports success after a failed mutation: when a platform
\* command attempted during syncFromDoppler fails, the clearing of the
\* previously synced secrets included, syncFromDoppler raises.
C27_FailedMutationRaises ==
  lastOp.op = "sync" => (lastOp.failed # {} => ~lastOp.ok)

\* C28: the name mapping of the functions-config client is consistent in
\* both directions: every canonical key mapped to its platform name and back
\* is itself, distinct canonical keys have distinct platform names, and diff
\* compares each platform value with the value of the canonical key it was
\* written from.
C28_NameMappingRoundTrip ==
  /\ \A k \in DOMAIN secrets : toUpperCase(toLowerCase(k)) = k
  /\ \A k1, k2 \in DOMAIN secrets : k1 # k2 => toLowerCase(k1) # toLowerCase(k2)
  /\ (lastOp.op = "diff" /\ lastOp.platform = "firebase" /\ lastOp.listOk) =>
       \A k \in DOMAIN secrets :
         toLowerCase(k) \in DOMAIN fbStore =>
           (toLowerCase(k) \in Elems(lastOp.diff.toUpdate) <=>
              fbStore[toLowerCase(k)] # secrets[k])

\* C29: a getSecrets call answered from a cache entry that has not expired
\* returns the map a fresh fetch with the same requested keys would return,
\* whatever key subsets earlier calls requested.
C29_CacheHitEqualsFetch ==
  [][\A config \in SecretsConfigs :
       (GetSecretsStart(config) /\ config.source = "doppler" /\ config.ttl > 0
        /\ SecretsCacheGet(cache, now, config.project, config.config) # Null) =>
         /\ last'.via = "cache"
         /\ last'.result = Requested(fetchFromDoppler(config), config)]_vars

(***************************************************************************)
(* SecretsCache used directly (packages/runtime/src/cache.ts), as its      *)
(* tests do: set, delete and setRefreshing for any project and config      *)
(* names, which are plain strings to the cache.                            *)
(***************************************************************************)
\* Project and config names: the cache accepts any string.
CacheProjects == {"p1", "p1:dev"}

CacheConfigs == {"dev", "dev:dev"}

\* isStale: no entry, or an entry past its expiry.
SecretsCacheIsStale(entries, nowMs, project, config) ==
  LET key == getKey(project, config)
  IN  IF key \notin DOMAIN entries THEN TRUE ELSE nowMs > entries[key].expiresAt

InitCache ==
  /\ InitCacheIdle
  /\ InitAdaptersIdle
  /\ secrets = EmptyMap /\ fbStore = EmptyMap /\ cfStore = EmptyMap
  /\ InitClientState
  /\ InitSyncIdle

CacheSet(project, config, value, ttlSeconds) ==
  /\ cache' = SecretsCacheSet(cache, now, project, config, value, ttlSeconds)
  /\ UNCHANGED <<now, env, inflight, last, appFallback, refreshes, stored,
                 clientVars, syncVars, adapterVars>>

CacheDelete(project, config) ==
  /\ cache' = SecretsCacheDelete(cache, project, config)
  /\ UNCHANGED <<now, env, inflight, last, appFallback, refreshes, stored,
                 clientVars, syncVars, adapterVars>>

CacheSetRefreshing(project, config, refreshing) ==
  /\ cache' = SecretsCacheSetRefreshing(cache, project, config, refreshing)
  /\ UNCHANGED <<now, env, inflight, last, appFallback, refreshes, stored,
                 clientVars, syncVars, adapterVars>>

NextCache ==
  \/ \E project \in CacheProjects, config \in CacheConfigs,
        value \in {ProviderSecrets("p1", "dev"), ProviderSecrets("p1", "prd")},
        ttlSeconds \in {0, 1} : CacheSet(project, config, value, ttlSeconds)
  \/ \E project \in CacheProjects, config \in CacheConfigs : CacheDelete(project, config)
  \/ \E project \in CacheProjects, config \in CacheConfigs, refreshing \in BOOLEAN :
       CacheSetRefreshing(project, config, refreshing)
  \/ ClearSecretsCache
  \/ Tick

SpecCache == InitCache /\ [][NextCache]_vars

\* What the four readers of the cache return for a pair.
CacheView(entries, nowMs, project, config) ==
  [get |-> SecretsCacheGet(entries, nowMs, project, config),
   getStale |-> SecretsCacheGetStale(entries, project, config),
   isStale |-> SecretsCacheIsStale(entries, nowMs, project, config),
   isRefreshing |-> SecretsCacheIsRefreshing(entries, project, config)]

\* C30: cache entries of two different (project, environment) pairs never
\* alias: set, delete and setRefreshing applied to one pair never change
\* what get, getStale, isStale or isRefreshing return for a different pair.
C30_NoAliasing ==
  [][\A project \in CacheProjects, config \in CacheConfigs :
       (\/ \E value \in {ProviderSecrets("p1", "dev"), ProviderSecrets("p1", "prd")},
              ttlSeconds \in {0, 1} : CacheSet(project, config, value, ttlSeconds)
        \/ CacheDelete(project, config)
        \/ \E refreshing \in BOOLEAN : CacheSetRefreshing(project, config, refreshing))
       => \A other \in CacheProjects, env2 \in CacheConfigs :
            <<other, env2>> # <<project, config>> =>
              CacheView(cache', now', other, env2) = CacheView(cache, now, other, env2)]_vars

====
